---- MODULE Spec2Model ----
(***************************************************************************)
(* Model of src/src/backend/extractor.py: the batching generator           *)
(* _batch_images, the iterator protocol of Extractor and the construction  *)
(* and extract_features methods of its four backend subclasses.            *)
(*                                                                         *)
(* One consumer drives one Extractor instance.  Control is single-threaded *)
(* (pc says who runs): the consumer ("idle"), the generator _batch_images  *)
(* resumed by next(self.images) ("batching"), or extract_features          *)
(* ("extracting").                                                         *)
(***************************************************************************)
EXTENDS Integers, Sequences, FiniteSets, TLC

\* ----------------------------------------------------------------- bounds
MaxN == 4            \* longest input stream
MaxBatch == 3        \* largest batch_size
MaxAfterDone == 2    \* pulls made after the generator has finished
MaxLayer == 2        \* layer names are 1..MaxLayer (ordered like strings)
MaxOps == 3          \* operations in a frozen graph

\* ------------------------------------------------------------- input data
\* A sample is the tuple (name, ts, image) unpacked at line 282.
Samples ==
    { [name |-> 1, ts |-> 10, image |-> 100],
      [name |-> 2, ts |-> 20, image |-> 200] }

SeqsUpTo(S, n) == UNION { [1..k -> S] : k \in 0..n }

Variants == {"tf", "hub", "keras", "caffe"}

\* The layer lists a loaded model may expose (in the model's own order).
LayerLists == { l \in SeqsUpTo(1..MaxLayer, 2) :
                  Len(l) >= 1 /\ \A i, j \in 1..Len(l) : i # j => l[i] # l[j] }

\* Exceptions the numeric runtime may raise inside extract_features.
BackendErrors == {"RuntimeError", "StopIteration"}

VARIABLES
    images,               \* the input stream handed to the constructor
    batch_size,
    variant, layer, layers,
    session,              \* TRUE when self.session / self.net exists
    message,              \* content of the construction error, if any
    pc,                   \* "new" | "init_failed" | "idle" | "batching" | "extracting" | "stopped"
    gen,                  \* generator: "created" | "running" | "at_yield" | "at_last_yield" | "closed"
    pos,                  \* samples taken from the input stream so far
    index,
    current_name_batch, current_ts_batch, current_image_batch,
    pending,              \* batches yielded to __next__ and not yet dropped by it
    batches,              \* history: every batch yielded by the generator
    out,                  \* history: every value returned by __next__
    okBatches,            \* history: numbers of the batches whose extract returned
    result,               \* what the last pull gave the consumer
    fault,                \* exception raised inside the last pull ("None" if none)
    faultAt,              \* where it was raised: "none" | "extract" | "input"
    firstFail,            \* number of the first batch whose extract raised (0: none)
    inputFailed,          \* the input stream raised
    afterDone,            \* pulls made after the generator closed
    preprocess,           \* keras: how self.preprocess treats its argument
    fits,                 \* keras: the images already have the model's input size
    seen,                 \* the caller's batch as it is after extract_features returned
    blob_n,               \* caffe: batch dimension of net.blobs['data']
    lastFwd,              \* caffe: placeholder dimension and batch size at the last forward pass
    graph_ops,            \* names of the operations of the frozen graph (self.graph)
    gpc,                  \* layer discovery: "none" | "loaded" | "done" | "failed"
    tensor_names,         \* tensor_names of __input_and_layers
    layer_dict,           \* layer_dict of __input_and_layers
    input_tensor          \* input of __input_and_layers

vars == << images, batch_size, variant, layer, layers, session, message, pc,
           gen, pos, index, current_name_batch, current_ts_batch,
           current_image_batch, pending, batches, out, okBatches, result,
           fault, faultAt, firstFail, inputFailed, afterDone, preprocess,
           fits, seen, blob_n, lastFwd, graph_ops, gpc, tensor_names,
           layer_dict, input_tensor >>

graphvars == << graph_ops, gpc, tensor_names, layer_dict, input_tensor >>
config == << images, batch_size, variant, layer, layers, preprocess, fits,
             graphvars >>
extractvars == << seen, blob_n, lastFwd >>
genvars == << gen, pos, index, current_name_batch, current_ts_batch,
              current_image_batch, batches, inputFailed >>
buffers == << current_name_batch, current_ts_batch, current_image_batch >>

\* ------------------------------------------------------------ pure helpers
RECURSIVE Insert(_, _)
Insert(x, s) ==
    IF s = << >> THEN << x >>
    ELSE IF x <= Head(s) THEN << x >> \o s
    ELSE << Head(s) >> \o Insert(x, Tail(s))

RECURSIVE sorted(_)
\* Python's sorted() on a list of layer names.
sorted(s) == IF s = << >> THEN << >> ELSE Insert(Head(s), sorted(Tail(s)))

Range(s) == { s[i] : i \in 1..Len(s) }

Min(a, b) == IF a <= b THEN a ELSE b

\* np.array(..., dtype=np.uint8) applied to one pixel value.
ToUint8(x) == x % 256

\* The forward pass of the loaded network on one image (deterministic).
Forward(image) == 255 - image

\* ---------------------------------------------------------- _batch_images
\* Mutant: the sample is put in front of the buffer.
AppendSample_front(buf, x) == << x >> \o buf

\* name/ts/image appended to the in-progress buffers (lines 283-285).
AppendSample(buf, x) == Append(buf, x)

\* Mutant: the batch is closed one sample early (index instead of index + 1).
BatchFull_early(idx, bs) == idx % bs = 0

\* The test that closes a batch (line 287).
BatchFull(idx, bs) == (idx + 1) % bs = 0

\* Mutant: the timestamps are taken in reverse order.
MakeBatch_skewed(names, tss, imgs) ==
    [ identifiers |-> names,
      timestamps  |-> [ j \in 1..Len(tss) |-> tss[Len(tss) + 1 - j] ],
      images      |-> [ j \in 1..Len(imgs) |-> ToUint8(imgs[j]) ] ]

\* The tuple yielded at lines 288-294 and 298-301.
MakeBatch(names, tss, imgs) ==
    [ identifiers |-> names,
      timestamps  |-> tss,
      images      |-> [ j \in 1..Len(imgs) |-> ToUint8(imgs[j]) ] ]

\* Mutant: the remaining partial batch is never emitted.
TailNonEmpty_never(names) == FALSE

\* The test for a remaining partial batch (line 297).
TailNonEmpty(names) == names # << >>

\* ------------------------------------------------------- extract_features
\* Mutant: the names are zipped in reverse order.
ZipFeatures_reversed(names, tss, feats) ==
    [ j \in 1..Min(Len(names), Min(Len(tss), Len(feats))) |->
        [ name |-> names[Len(names) + 1 - j], timestamp |-> tss[j],
          features |-> feats[j] ] ]

\* map(FeatureTuple._make, zip(name_batch, ts_batch, feature_batch)).
ZipFeatures(names, tss, feats) ==
    [ j \in 1..Min(Len(names), Min(Len(tss), Len(feats))) |->
        [ name |-> names[j], timestamp |-> tss[j], features |-> feats[j] ] ]

\* The per-sample shape of a layer's output: odd layers stand for
\* convolutional activations (2 x 2), even ones for dense outputs (3).
LayerShape(l) == IF l % 2 = 1 THEN << 2, 2 >> ELSE << 3 >>

RECURSIVE Prod(_)
\* tf.reduce_prod(shape[1:]) / np.prod(shape[1:]).
Prod(dims) == IF dims = << >> THEN 1 ELSE Head(dims) * Prod(Tail(dims))

\* One sample's row of the layer output: an array is its shape and its
\* elements in row-major order.
LayerOutput(l, image) ==
    [ dims |-> LayerShape(l),
      data |-> [ c \in 1..Prod(LayerShape(l)) |-> (Forward(image) + c) % 256 ] ]

\* reshape(x, [-1, dim]) seen on one sample (lines 50-51 and 220-221).
reshape(x) == [ dims |-> << Prod(x.dims) >>, data |-> x.data ]

\* The variants whose feature tensor is reshaped to [-1, dim]:
\* TensorFlowExtractor (line 51) and KerasExtractor (line 221).  The hub
\* variant takes the module output as it is (line 136) and the caffe
\* variant the blob data as it is (line 271).
Reshapes(v) == v \in {"tf", "keras"}

\* session.run / model.predict / net.forward on the whole image batch.
FeatureBatch(imgs) ==
    [ j \in 1..Len(imgs) |->
        IF Reshapes(variant) THEN reshape(LayerOutput(layer, imgs[j]))
                             ELSE LayerOutput(layer, imgs[j]) ]

\* Mutant: the image array of a batch is built as float32.
BatchDtype_float == "float32"

\* The dtype of the image array of a batch (lines 288-289 and 298-299).
BatchDtype == "uint8"

\* KerasExtractor.__resize builds a new array only when the size differs
\* (lines 168-170).
ResizeCopies(fit) == ~ fit

\* x.astype(float, copy=False) copies only when the dtype changes.
AstypeCopies(dtype) == dtype # "float32"

\* The in-place arithmetic of preprocess_input on one pixel.
Scale(x) == x - 100

\* The batch as the caller sees it once extract_features has returned: the
\* tf and hub variants only feed the array (lines 106-109, 152-155); the
\* caffe transformer casts and channel-swaps into new arrays (line 266);
\* keras writes in place into whatever array preprocess_input ends up
\* with (lines 217-218), which is the batch's own array only if neither
\* the resize nor the cast copied it.
BatchAfterExtract(b) ==
    IF /\ variant = "keras"
       /\ preprocess = "inplace"
       /\ ~ ResizeCopies(fits)
       /\ ~ AstypeCopies(BatchDtype)
    THEN [ b EXCEPT !.images = [ j \in 1..Len(b.images) |-> Scale(b.images[j]) ] ]
    ELSE b

\* Mutant: the data blob keeps the batch dimension it had.
CaffeReshape_stale(old, n) == old

\* net.blobs['data'].reshape(image_batch.shape[0], ...) and net.reshape()
\* (lines 261-264): the new batch dimension of the placeholder.
CaffeReshape(old, n) == n

\* Mutant: __next__ keeps the batch it has extracted.
Consume_keep(p) == p

\* __next__ drops its reference to the batch when it returns or raises.
Consume(p) == Tail(p)

\* ------------------------------------------------------------ construction
\* The AssertionError text of TensorFlowExtractor.__init__ (lines 47-48):
\* the offending layer and the sorted list of layer names.
TFMessage(l, ls) == [ offending |-> l, listed |-> sorted(ls) ]

\* The AssertionError text of KerasExtractor.__init__ (line 208): only the
\* list of layer names, in the model's order (0: no layer named).
KerasMessage(l, ls) == [ offending |-> 0, listed |-> ls ]

\* The preprocessors of KerasExtractor (lines 191-202): __preprocess_vgg
\* returns a channel-reversed view; the preprocess_input functions cast to
\* float with astype(copy=False) and then subtract and scale in place.
PreprocessKinds == {"flip", "inplace"}

NoMessage == [ offending |-> 0, listed |-> << >> ]

\* Which constructors check the layer, and whether that check raises.
LayerAsserted(v) == v \in {"tf", "keras"}

\* TensorflowHubExtractor creates the session only for a known layer
\* (lines 135-141); the other variants always hold their session / net.
HasSession(v, l, ls) == IF v = "hub" THEN l \in Range(ls) ELSE TRUE

\* No frozen graph is under inspection.
NoGraph ==
    /\ graph_ops = << >>
    /\ gpc = "none"
    /\ tensor_names = << >>
    /\ layer_dict = << >>
    /\ input_tensor = << >>

Init ==
    /\ NoGraph
    /\ images \in SeqsUpTo(Samples, MaxN)
    /\ batch_size \in 1..MaxBatch
    /\ variant \in Variants
    /\ layers \in LayerLists
    /\ layer \in 1..MaxLayer
    /\ session = FALSE
    /\ message = NoMessage
    /\ pc = "new"
    /\ gen = "created"
    /\ pos = 0
    /\ index = 0
    /\ current_name_batch = << >>
    /\ current_ts_batch = << >>
    /\ current_image_batch = << >>
    /\ pending = << >>
    /\ batches = << >>
    /\ out = << >>
    /\ okBatches = << >>
    /\ result = "none"
    /\ fault = "None"
    /\ faultAt = "none"
    /\ firstFail = 0
    /\ inputFailed = FALSE
    /\ afterDone = 0
    /\ preprocess \in (IF variant = "keras" THEN PreprocessKinds ELSE {"none"})
    /\ fits \in (IF variant = "keras" THEN BOOLEAN ELSE {TRUE})
    /\ seen = << >>
    /\ blob_n \in (IF variant = "caffe" THEN 1..MaxBatch ELSE {0})
    /\ lastFwd = [ dim |-> 0, n |-> 0 ]

\* __init__ of the four subclasses.  Extractor.__init__ only creates the
\* generator object; nothing of the input stream is read.
ConstructFails ==
    /\ pc = "new"
    /\ LayerAsserted(variant)
    /\ layer \notin Range(layers)
    /\ pc' = "init_failed"
    /\ message' = IF variant = "tf" THEN TFMessage(layer, layers)
                                   ELSE KerasMessage(layer, layers)
    /\ UNCHANGED << config, extractvars, session, genvars, pending, out, okBatches,
                    result, fault, faultAt, firstFail, afterDone >>

ConstructOk ==
    /\ pc = "new"
    /\ ~ (LayerAsserted(variant) /\ layer \notin Range(layers))
    /\ pc' = "idle"
    /\ session' = HasSession(variant, layer, layers)
    /\ UNCHANGED << config, extractvars, message, genvars, pending, out, okBatches,
                    result, fault, faultAt, firstFail, afterDone >>

\* ------------------------------------------------- Extractor.__next__
\* The consumer calls __next__, which calls next(self.images): the generator
\* starts, or resumes after the yield of line 294 with index += 1 (line 295).
Pull ==
    /\ pc = "idle"
    /\ gen \in {"created", "at_yield"}
    /\ index' = IF gen = "at_yield" THEN index + 1 ELSE index
    /\ gen' = "running"
    /\ pc' = "batching"
    /\ result' = "none"
    /\ fault' = "None"
    /\ faultAt' = "none"
    /\ UNCHANGED << config, extractvars, session, message, pos, buffers, pending, batches,
                    out, okBatches, firstFail, inputFailed, afterDone >>

\* The generator is resumed after the yield of line 301 and falls off its
\* end: next(self.images) raises StopIteration, which __next__ re-raises.
PullLast ==
    /\ pc = "idle"
    /\ gen = "at_last_yield"
    /\ gen' = "closed"
    /\ result' = "StopIteration"
    /\ fault' = "None"
    /\ faultAt' = "none"
    /\ UNCHANGED << config, extractvars, session, message, pc, pos, index, buffers, pending,
                    batches, out, okBatches, firstFail, inputFailed, afterDone >>

\* next() on a finished generator raises StopIteration at once.
PullAfterDone ==
    /\ pc = "idle"
    /\ gen = "closed"
    /\ afterDone < MaxAfterDone
    /\ afterDone' = afterDone + 1
    /\ result' = "StopIteration"
    /\ fault' = "None"
    /\ faultAt' = "none"
    /\ UNCHANGED << config, extractvars, session, message, pc, genvars, pending, out,
                    okBatches, firstFail >>

\* One iteration of the for loop of _batch_images (lines 280-295).
GenRead ==
    /\ pc = "batching"
    /\ pos < Len(images)
    /\ pos' = pos + 1
    /\ LET plot_tuple == images[pos + 1]
           names == AppendSample(current_name_batch, plot_tuple.name)
           tss   == AppendSample(current_ts_batch, plot_tuple.ts)
           imgs  == AppendSample(current_image_batch, plot_tuple.image)
       IN IF BatchFull(index, batch_size)
          THEN /\ current_name_batch' = << >>
               /\ current_ts_batch' = << >>
               /\ current_image_batch' = << >>
               /\ batches' = Append(batches, MakeBatch(names, tss, imgs))
               /\ pending' = Append(pending, MakeBatch(names, tss, imgs))
               /\ gen' = "at_yield"
               /\ pc' = "extracting"
               /\ index' = index
          ELSE /\ current_name_batch' = names
               /\ current_ts_batch' = tss
               /\ current_image_batch' = imgs
               /\ index' = index + 1
               /\ UNCHANGED << batches, pending, gen, pc >>
    /\ UNCHANGED << config, extractvars, session, message, out, okBatches, result, fault,
                    faultAt, firstFail, inputFailed, afterDone >>

\* The input stream raises while the for loop asks it for the next sample:
\* the exception unwinds the generator (which is then finished) and __next__.
GenInputError ==
    /\ pc = "batching"
    /\ pos < Len(images)
    /\ gen' = "closed"
    /\ pc' = "idle"
    /\ inputFailed' = TRUE
    /\ fault' = "IOError"
    /\ faultAt' = "input"
    /\ result' = "IOError"
    /\ UNCHANGED << config, extractvars, session, message, pos, index, buffers, pending,
                    batches, out, okBatches, firstFail, afterDone >>

\* The input stream is exhausted (lines 297-304).
GenExhausted ==
    /\ pc = "batching"
    /\ pos = Len(images)
    /\ IF TailNonEmpty(current_name_batch)
       THEN LET b == MakeBatch(current_name_batch, current_ts_batch,
                               current_image_batch)
            IN /\ batches' = Append(batches, b)
               /\ pending' = Append(pending, b)
               /\ gen' = "at_last_yield"
               /\ pc' = "extracting"
               /\ UNCHANGED result
       ELSE /\ gen' = "closed"
            /\ pc' = "idle"
            /\ result' = "StopIteration"
            /\ UNCHANGED << batches, pending >>
    /\ UNCHANGED << config, extractvars, session, message, pos, index, buffers, out,
                    okBatches, fault, faultAt, firstFail, inputFailed,
                    afterDone >>

\* The exception extract_features raises before it can return, if any:
\* without a session the attribute lookup fails (hub, lines 135-152); the
\* runtime may fail; caffe looks the layer up after the forward pass
\* (line 271).
ExtractRaises(e) ==
    IF ~ session THEN e = "AttributeError"
    ELSE \/ e \in BackendErrors
         \/ variant = "caffe" /\ layer \notin Range(layers) /\ e = "KeyError"

ExtractCanReturn ==
    /\ session
    /\ ~ (variant = "caffe" /\ layer \notin Range(layers))

\* CaffeExtractor.extract_features reshapes the data blob to the size of the
\* batch and then runs the forward pass (lines 261-268); the other variants
\* have no such placeholder.
CaffeForward ==
    IF variant = "caffe"
    THEN LET n == Len(Head(pending).images)
         IN /\ blob_n' = CaffeReshape(blob_n, n)
            /\ lastFwd' = [ dim |-> CaffeReshape(blob_n, n), n |-> n ]
    ELSE UNCHANGED << blob_n, lastFwd >>

\* extract_features returns the records of the batch; __next__ returns them.
ExtractOk ==
    /\ pc = "extracting"
    /\ ExtractCanReturn
    /\ LET tuple_batch == Head(pending)
       IN out' = Append(out, ZipFeatures(tuple_batch.identifiers,
                                         tuple_batch.timestamps,
                                         FeatureBatch(tuple_batch.images)))
    /\ okBatches' = Append(okBatches, Len(batches))
    /\ seen' = BatchAfterExtract(Head(pending))
    /\ CaffeForward
    /\ pending' = Consume(pending)
    /\ pc' = "idle"
    /\ result' = "records"
    /\ UNCHANGED << config, session, message, genvars, fault, faultAt,
                    firstFail, afterDone >>

\* extract_features raises e; __next__ lets it through (a StopIteration is
\* caught and raised again, lines 24-25).
ExtractFails ==
    /\ pc = "extracting"
    /\ \E e \in BackendErrors \cup {"AttributeError", "KeyError"} :
         /\ ExtractRaises(e)
         /\ fault' = e
         /\ result' = e
    /\ faultAt' = "extract"
    /\ firstFail' = IF firstFail = 0 THEN Len(batches) ELSE firstFail
    /\ IF session THEN CaffeForward ELSE UNCHANGED << blob_n, lastFwd >>
    /\ UNCHANGED seen
    /\ pending' = Consume(pending)
    /\ pc' = "idle"
    /\ UNCHANGED << config, session, message, genvars, out, okBatches,
                    afterDone >>

\* ------------------------------ TensorFlowExtractor.__input_and_layers
\* A name is a sequence of tokens: words, the separator "/" and the output
\* suffix ":0".  No word contains another, so "ending in tensor_name" on
\* the string is membership of the ending among the tokens.
OpNames ==
    { << "extractor", "/", "input" >>,
      << "extractor", "/", "fc" >>,
      << "extractor", "/", "pool" >>,
      << "extractor", "/", "fc", "/", "bias" >>,
      << "extractor", "/", "fc", "bias" >>,
      << "extractor", "/", "bias", "/", "fc" >>,
      << "extractor", "/", "bias", "pool" >> }

\* ignored_tensor_endings (lines 89-90), as far as they occur in OpNames.
ignored_tensor_endings == { "bias", "input" }

\* __ignore_tensor (line 91): any(ending in tensor_name ...).
ignore_tensor(tensor_name) ==
    \E k \in 1..Len(tensor_name) : tensor_name[k] \in ignored_tensor_endings

RECURSIVE SelectKept(_)
\* tensor_names (line 67): op.name + ':0' of the operations not ignored.
SelectKept(ops) ==
    IF ops = << >> THEN << >>
    ELSE IF ignore_tensor(Head(ops)) THEN SelectKept(Tail(ops))
    ELSE << Head(ops) \o << ":0" >> >> \o SelectKept(Tail(ops))

\* Index of the last "/" of a name (0 if there is none).
LastSlash(name) ==
    LET S == { k \in 1..Len(name) : name[k] = "/" }
    IN IF S = {} THEN 0 ELSE CHOOSE k \in S : \A m \in S : m <= k

\* tensor_name.split('/')[-1][:-2] (line 78): the trailing segment without
\* its two last characters, the ":0".
LayerKey(tensor_name) ==
    SubSeq(tensor_name, LastSlash(tensor_name) + 1, Len(tensor_name) - 1)

\* re.match(r'^(\w+)/*', name).group(1) (lines 70-71): the leading word
\* characters of the name.
Prefix(name) ==
    LET S == { k \in 1..Len(name) : name[k] \in {"/", ":0"} }
    IN IF S = {} THEN name
       ELSE SubSeq(name, 1, (CHOOSE k \in S : \A m \in S : k <= m) - 1)

\* layer_dict (lines 78-79): a later tensor replaces an earlier one that
\* has the same key.
LayerDict(names) ==
    [ key \in { LayerKey(names[k]) : k \in 1..Len(names) } |->
        names[CHOOSE k \in 1..Len(names) :
                /\ LayerKey(names[k]) = key
                /\ \A m \in 1..Len(names) : LayerKey(names[m]) = key => m <= k] ]

GraphInit ==
    /\ graph_ops \in SeqsUpTo(OpNames, MaxOps)
    /\ gpc = "loaded"
    /\ tensor_names = << >>
    /\ layer_dict = << >>
    /\ input_tensor = << >>
    /\ images = << >>
    /\ batch_size = 1
    /\ variant = "tf"
    /\ layers = << 1 >>
    /\ layer = 1
    /\ session = FALSE
    /\ message = NoMessage
    /\ pc = "graph"
    /\ gen = "created"
    /\ pos = 0
    /\ index = 0
    /\ current_name_batch = << >>
    /\ current_ts_batch = << >>
    /\ current_image_batch = << >>
    /\ pending = << >>
    /\ batches = << >>
    /\ out = << >>
    /\ okBatches = << >>
    /\ result = "none"
    /\ fault = "None"
    /\ faultAt = "none"
    /\ firstFail = 0
    /\ inputFailed = FALSE
    /\ afterDone = 0
    /\ preprocess = "none"
    /\ fits = TRUE
    /\ seen = << >>
    /\ blob_n = 0
    /\ lastFwd = [ dim |-> 0, n |-> 0 ]

\* __input_and_layers (lines 66-86).  tensor_names[0] raises IndexError when
\* every operation was ignored; get_tensor_by_name raises KeyError when the
\* graph has no operation prefix + '/input'.
Discover ==
    /\ gpc = "loaded"
    /\ LET names == SelectKept(graph_ops)
           inp == IF names = << >> THEN << >>
                  ELSE Prefix(names[1]) \o << "/", "input" >>
       IN /\ tensor_names' = names
          /\ IF names # << >> /\ inp \in Range(graph_ops)
             THEN /\ layer_dict' = LayerDict(names)
                  /\ input_tensor' = inp \o << ":0" >>
                  /\ gpc' = "done"
             ELSE /\ gpc' = "failed"
                  /\ UNCHANGED << layer_dict, input_tensor >>
    /\ UNCHANGED << images, batch_size, variant, layer, layers, preprocess,
                    fits, graph_ops, extractvars, session, message, pc,
                    genvars, pending, out, okBatches, result, fault, faultAt,
                    firstFail, afterDone >>

GraphNext == Discover

\* Layer discovery alone, on every graph of up to MaxOps operations.
GraphSpec == GraphInit /\ [][GraphNext]_vars

\* The consumer stops iterating before the sequence is exhausted (it leaves
\* its loop).  Extractor and its subclasses define no close, __del__,
\* __enter__ or __exit__, so no code of theirs runs: the session or net
\* stays as it is and the generator stays suspended.
Stop ==
    /\ pc = "idle"
    /\ gen # "closed"
    /\ pc' = "stopped"
    /\ UNCHANGED << config, extractvars, session, message, genvars, pending,
                    out, okBatches, result, fault, faultAt, firstFail,
                    afterDone >>

\* The steps taken while the consumer goes on pulling.
Iterate ==
    \/ ConstructFails
    \/ ConstructOk
    \/ Pull
    \/ PullLast
    \/ PullAfterDone
    \/ GenRead
    \/ GenInputError
    \/ GenExhausted
    \/ ExtractOk
    \/ ExtractFails

Next ==
    \/ ConstructFails
    \/ ConstructOk
    \/ Pull
    \/ PullLast
    \/ PullAfterDone
    \/ GenRead
    \/ GenInputError
    \/ GenExhausted
    \/ ExtractOk
    \/ ExtractFails
    \/ Stop

Spec == Init /\ [][Next]_vars

\* The consumer keeps pulling and every step of a pull completes.
FairSpec == Init /\ [][Iterate]_vars /\ WF_vars(Iterate)

\* ================================================================ claims
N == Len(images)

CeilDiv(a, b) == (a + b - 1) \div b

\* Concatenation of a sequence of sequences.
RECURSIVE Flatten(_)
Flatten(ss) == IF ss = << >> THEN << >> ELSE Head(ss) \o Flatten(Tail(ss))

\* The generator has finished after consuming the whole input stream.
Exhausted == gen = "closed" /\ ~ inputFailed

\* ... and no extract_features call raised on the way.
CleanRun == Exhausted /\ firstFail = 0

BatchIds == Flatten([ k \in 1..Len(batches) |-> batches[k].identifiers ])

\* C1: BatchSource emits ceil(N / batch_size) batches for a stream of N
\* samples; every batch but the last has exactly batch_size samples and,
\* when N > 0, the last one has ((N - 1) mod batch_size) + 1 samples.
C1_BatchCount ==
    /\ \A k \in 1..(Len(batches) - 1) :
          Len(batches[k].identifiers) = batch_size
    /\ Exhausted =>
          /\ Len(batches) = CeilDiv(N, batch_size)
          /\ N > 0 => Len(batches[Len(batches)].identifiers)
                        = ((N - 1) % batch_size) + 1
          /\ N = 0 => batches = << >>
          /\ (N > 0 /\ N < batch_size) =>
                 /\ Len(batches) = 1
                 /\ Len(batches[1].identifiers) = N

C1_Witness ==
    /\ Exhausted
    /\ N > batch_size
    /\ N % batch_size # 0
    /\ Len(batches) >= 2
    /\ Len(batches[Len(batches)].identifiers) < batch_size

\* C2: the identifiers of the emitted batches, concatenated in emission
\* order, are the identifiers of the input stream in input order: always a
\* prefix of them, and all of them once the stream is exhausted.
C2_OrderPreserved ==
    /\ Len(BatchIds) <= pos
    /\ BatchIds = [ i \in 1..Len(BatchIds) |-> images[i].name ]
    /\ Exhausted => Len(BatchIds) = N

C2_Witness ==
    /\ Exhausted
    /\ Len(batches) >= 2
    /\ \E i, j \in 1..N : i < j /\ images[i].name # images[j].name
                            /\ CeilDiv(i, batch_size) = CeilDiv(j, batch_size)

C4_FaultIsFatal ==
    firstFail # 0 => okBatches = [ k \in 1..(firstFail - 1) |-> k ]

\* C5: with a layer that is not among the model's layers, construction
\* fails for every variant, before anything is asked of BatchSource, so
\* extract is never attempted with such a layer.
C5_LayerValidated ==
    layer \notin Range(layers) =>
       /\ pc \in {"new", "init_failed"}
       /\ pos = 0
       /\ batches = << >>

\* C6: at most one batch is in flight: a batch is held only while its
\* extraction runs, and BatchSource is asked for a batch (and reads input)
\* only when the previous batch has been extracted and handed out or has
\* raised.
C6_OneInFlight ==
    /\ Len(pending) <= 1
    /\ pc = "extracting" => Len(pending) = 1
    /\ pc \in {"idle", "batching"} => pending = << >>

C6_Witness ==
    /\ pc = "extracting"
    /\ Len(batches) >= 2
    /\ Len(out) >= 1
    /\ pending = << batches[Len(batches)] >>

\* C7: in every emitted batch the three fields have one length n with
\* 1 <= n <= batch_size and position j of each field holds the name, the
\* timestamp and the image of one and the same input sample.
C7_BatchAligned ==
    \A k \in 1..Len(batches) :
       LET b == batches[k]
           n == Len(b.identifiers)
           o == (k - 1) * batch_size
       IN /\ Len(b.timestamps) = n
          /\ Len(b.images) = n
          /\ 1 <= n
          /\ n <= batch_size
          /\ o + n <= N
          /\ \A j \in 1..n :
                /\ b.identifiers[j] = images[o + j].name
                /\ b.timestamps[j] = images[o + j].ts
                /\ b.images[j] = ToUint8(images[o + j].image)

C7_Witness ==
    /\ Len(batches) >= 2
    /\ Len(batches[1].identifiers) >= 2
    /\ batches[1].identifiers[1] # batches[1].identifiers[2]
    /\ Len(batches[Len(batches)].identifiers) < batch_size

\* C8: an error raised inside extract_features or by the input stream
\* reaches the consumer as an error from that very pull, never as a normal
\* end of iteration, and ends the sequence: no batch is requested after the
\* one whose extraction failed.
C8_ErrorsPropagate ==
    /\ faultAt # "none" => result \notin {"none", "records", "StopIteration"}
    /\ firstFail # 0 => Len(batches) = firstFail

\* C9: the error of a failed construction names the offending layer and
\* lists all valid layer names in sorted order.
C9_Diagnostics ==
    pc = "init_failed" =>
       /\ message.offending = layer
       /\ message.listed = sorted(layers)

\* C10: with the consumer pulling on, the sequence ends: the generator
\* finishes (unless construction failed), it finishes only when the input
\* has been read to its end and the records of the last batch are out, and
\* from then on every pull reports the end of iteration, emits nothing and
\* reads nothing.
C10_Terminates ==
    /\ <>(pc = "init_failed" \/ gen = "closed")
    /\ [](Exhausted =>
            /\ pos = N
            /\ pc = "idle"
            /\ pending = << >>
            /\ firstFail = 0 => Len(Flatten(out)) = N)
    /\ [][gen = "closed" =>
            /\ gen' = "closed"
            /\ result' = "StopIteration"
            /\ out' = out
            /\ batches' = batches
            /\ pos' = pos]_vars

C10_Witness ==
    /\ CleanRun
    /\ N >= 2
    /\ N % batch_size # 0
    /\ afterDone = MaxAfterDone
    /\ result = "StopIteration"

\* C11: every record emitted, whatever the variant, carries a flat feature
\* vector (one axis), and all records of one Pipeline have the same
\* dimension D.
C11_FlatFeatures ==
    \A k \in 1..Len(out) : \A j \in 1..Len(out[k]) :
       /\ Len(out[k][j].features.dims) = 1
       /\ out[k][j].features.dims = out[1][1].features.dims
       /\ Len(out[k][j].features.data) = out[k][j].features.dims[1]

\* C12: when extract_features has returned, the batch it was given holds
\* the same identifiers, timestamps and images as when BatchSource yielded
\* it, for every variant.
C12_BatchUnchanged ==
    result = "records" => seen = batches[okBatches[Len(okBatches)]]

C12_Witness ==
    /\ result = "records"
    /\ variant = "keras"
    /\ preprocess = "inplace"
    /\ fits
    /\ Len(seen.images) >= 2
    /\ Len(okBatches) >= 2

\* C15: every forward pass of the caffe variant runs with the data blob's
\* batch dimension equal to the size of the batch being extracted, also
\* when a smaller batch follows full ones.
C15_ReshapedBeforeForward ==
    (variant = "caffe" /\ lastFwd.n # 0) =>
       /\ lastFwd.dim = lastFwd.n
       /\ pc = "idle" => /\ blob_n = lastFwd.n
                         /\ lastFwd.n = Len(batches[Len(batches)].images)

C15_Witness ==
    /\ variant = "caffe"
    /\ pc = "idle"
    /\ Len(okBatches) >= 2
    /\ Len(batches[1].images) = batch_size
    /\ lastFwd.n < batch_size
    /\ lastFwd.n = Len(batches[Len(batches)].images)

\* C13: once the consumer has stopped iterating early, the backend's
\* session or net has been released and BatchSource has been closed.
C13_ReleasedOnStop ==
    pc = "stopped" => (~ session /\ gen = "closed")

\* C14: construction reads nothing from the input; when a batch is handed
\* over, exactly the samples of the batches emitted so far have been read
\* and the in-progress buffers are empty; the buffer never holds more than
\* batch_size samples.
C14_NoReadAhead ==
    /\ pc \in {"new", "init_failed"} => pos = 0
    /\ (pc = "idle" /\ gen = "created") => pos = 0
    /\ pc = "extracting" =>
          /\ pos = Len(BatchIds)
          /\ current_name_batch = << >>
          /\ current_ts_batch = << >>
          /\ current_image_batch = << >>
    /\ Len(current_name_batch) <= batch_size
    /\ Len(current_image_batch) <= batch_size

\* C16: layer discovery drops an operation exactly when its name ends in
\* one of the ignored endings; every other operation is kept and its
\* trailing name segment is a key of the layer dictionary.
EndsInIgnored(name) == name[Len(name)] \in ignored_tensor_endings

C16_SuffixFilter ==
    gpc = "done" =>
       \A i \in 1..Len(graph_ops) :
          LET name == graph_ops[i]
          IN /\ EndsInIgnored(name) <=>
                   (name \o << ":0" >>) \notin Range(tensor_names)
             /\ ~ EndsInIgnored(name) =>
                   SubSeq(name, LastSlash(name) + 1, Len(name))
                      \in DOMAIN layer_dict

====
